---- MODULE Spec2Model ----
(***************************************************************************)
(* Betting-markets aggregator: one run of the `search` command.            *)
(*                                                                         *)
(* The command calls BettingMarketsAggregator.searchAll, which issues one  *)
(* search per candidate platform, waits for all of them with Promise.all,  *)
(* and then merges, filters, sorts and truncates the markets.              *)
(*                                                                         *)
(* Numbers: volumes and odds are whole numbers here (USD, percent); the    *)
(* code only compares and subtracts them.  An option that is not given     *)
(* (undefined) is the value Absent.  The timestamp of the result is left   *)
(* out: no claim reads it.                                                 *)
(***************************************************************************)
EXTENDS Integers, Sequences, FiniteSets, TLC

\* ---------------------------------------------------------------- bounds
\* longest list of markets a platform answers with (besides the full page)
MaxLen == 2
\* largest --max-results value tried
MaxCap == 2
\* largest --min-volume value tried
MaxMinVolume == 1

\* ------------------------------------------------------------- constants
\* `options.maxResults || 50` in both clients
DefaultLimit == 50

\* an option that was not given (undefined)
Absent == -1

Platforms == {"polymarket", "betfair"}

\* (volume, odds) of the markets a platform can answer with: volume 0,
\* equal odds at different volumes, and a pair that the volume and the
\* odds order differently; two markets of one kind tie on both keys
MarketKinds == {<<0, 50>>, <<1, 25>>, <<2, 50>>}

\* values a client's search can reject with: Error objects, whose message
\* may be empty, and a thrown value that is not an Error
ErrorValues ==
  { [isError |-> TRUE,  message |-> ""],
    [isError |-> TRUE,  message |-> "timeout"],
    [isError |-> FALSE, value |-> 503] }

\* a string option (platform, sortBy) that was not given
Undefined == "undefined"

Queries == {"greenland"}

SortKeys == {"volume", "odds", "platform"}

\* ------------------------------------------------------------ JS helpers
Min(a, b) == IF a <= b THEN a ELSE b

\* Array.prototype.slice(0, n) for n >= 0
Slice0(s, n) == SubSeq(s, 1, Min(n, Len(s)))

\* truthiness of an optional number: undefined and 0 are falsy
TruthyNum(x) == x # Absent /\ x # 0

\* truthiness of a string: "" is falsy
TruthyStr(s) == s # ""

UnifiedMarket(p, i, k) ==
  [platform |-> p, id |-> i, volume |-> k[1], odds |-> k[2]]

\* the n markets of one kind (a full result page)
Page(p, n, k) == [i \in 1..n |-> UnifiedMarket(p, i, k)]

\* what the platform behind a client can answer a search with
RawLists(p) ==
  UNION { { [i \in 1..n |-> UnifiedMarket(p, i, f[i])] :
            f \in [1..n -> MarketKinds] } : n \in 0..MaxLen }
  \cup { Page(p, DefaultLimit + 1, <<1, 25>>) }

\* ------------------------------------------------------------- utils.ts
\* String.prototype.localeCompare on the two platform names
PlatformRank(p) == IF p = "betfair" THEN 1 ELSE 2

localeCompare(a, b) ==
  IF PlatformRank(a) < PlatformRank(b) THEN -1
  ELSE IF PlatformRank(a) > PlatformRank(b) THEN 1 ELSE 0

\* a comparator with the volumes the wrong way round
compareMarkets_Ascending(a, b, sortBy) ==
  CASE sortBy = "volume"   -> a.volume - b.volume
    [] sortBy = "odds"     -> b.odds - a.odds
    [] sortBy = "platform" -> localeCompare(a.platform, b.platform)
    [] OTHER               -> 0

\* the comparator of sortMarkets
compareMarkets(a, b, sortBy) ==
  CASE sortBy = "volume"   -> b.volume - a.volume
    [] sortBy = "odds"     -> b.odds - a.odds
    [] sortBy = "platform" -> localeCompare(a.platform, b.platform)
    [] OTHER               -> 0

\* Array.prototype.sort with the comparator above is a stable sort.  The
\* comparator orders the markets by one key, so the result is, class by
\* class of markets the comparator holds equal and in the comparator's
\* order of the classes, the markets of the class in their original order.
\* firsts: the index of the first market of every class
ClassFirsts(markets, sortBy) ==
  { i \in 1..Len(markets) :
      \A j \in 1..(i - 1) : compareMarkets(markets[j], markets[i], sortBy) # 0 }

\* the classes from the k-th on, in the comparator's order
RECURSIVE SortClasses(_, _, _, _)
SortClasses(markets, sortBy, firsts, k) ==
  IF k > Cardinality(firsts) THEN <<>>
  ELSE
    LET r == CHOOSE i \in firsts :
               Cardinality({ j \in firsts :
                 compareMarkets(markets[j], markets[i], sortBy) < 0 }) = k - 1
    IN SelectSeq(markets, LAMBDA m : compareMarkets(m, markets[r], sortBy) = 0)
       \o SortClasses(markets, sortBy, firsts, k + 1)

sortMarkets(markets, sortBy) ==
  SortClasses(markets, sortBy, ClassFirsts(markets, sortBy), 1)

\* a sort of the array it is given, in place: `markets.sort(...)`
SortedCopy_InPlace(markets, sortBy) ==
  [array |-> sortMarkets(markets, sortBy), result |-> sortMarkets(markets, sortBy)]

\* `[...markets].sort(...)`: what the call leaves in the array it was given,
\* and what it returns
SortedCopy(markets, sortBy) ==
  [array |-> markets, result |-> sortMarkets(markets, sortBy)]

\* a filter that drops the markets at exactly the minimum
filterByMinVolume_Exclusive(markets, minVolume) ==
  SelectSeq(markets, LAMBDA m : m.volume > minVolume)

filterByMinVolume(markets, minVolume) ==
  SelectSeq(markets, LAMBDA m : m.volume >= minVolume)

\* ------------------------------------------------------------- clients
\* `options.maxResults || 50`
ClientLimit(options) ==
  IF TruthyNum(options.maxResults) THEN options.maxResults ELSE DefaultLimit

\* PolymarketClient.search: sort by volume, keep the first `limit`
PolymarketSearch(raw, options) ==
  Slice0(sortMarkets(raw, "volume"), ClientLimit(options))

\* BetfairClient.search: one market per catalogue entry, in catalogue order
BetfairSearch(raw, options) == raw

ClientSearch(p, raw, options) ==
  IF p = "polymarket" THEN PolymarketSearch(raw, options)
  ELSE BetfairSearch(raw, options)

\* listMarketCatalogue is asked for at most `maxResults` entries
PlatformAnswers(p, raw, options) ==
  p = "betfair" => Len(raw) <= ClientLimit(options)

\* ---------------------------------------------------- Betfair normalizer
\* Units: a decimal price is a whole number of 1/PriceScale (4.1667 is
\* 41667); a percentage is a whole number of 1/PercentScale percent (21.98
\* is 2198), which is what rounding to 2 decimals keeps; sizes and matched
\* totals are whole pounds, USD amounts whole cents.
PriceScale == 10000
PercentScale == 100

\* `const MIN_OFFER_SIZE = 2`
MIN_OFFER_SIZE == 2
\* `const MIN_LAY_PERCENT = 2`
MIN_LAY_PERCENT == 2
\* `config.settings?.gbpToUsd || 1.27`, in cents per pound
DefaultGbpToUsd == 127

\* Math.round(a / b) for a >= 0, b > 0
RoundDiv(a, b) == (2 * a + b) \div (2 * b)

\* betfairOddsToPercent: 100 for odds <= 1, else 100 / odds to 2 decimals
betfairOddsToPercent(decimalOdds) ==
  IF decimalOdds <= PriceScale THEN 100 * PercentScale
  ELSE RoundDiv(100 * PercentScale * PriceScale, decimalOdds)

\* gbpToUsd: Math.round(gbp * rate * 100) / 100
gbpToUsd(gbp, rate) == RoundDiv(gbp * rate, 1)

\* `runner.ex?.availableToBack?.[0]` when there is no such entry
NoQuote == [present |-> FALSE, price |-> 0, size |-> 0]

\* a filter that keeps a quote of any size
OfferPrice_AnySize(entry) ==
  IF entry.present THEN entry.price ELSE Absent

\* `(entry && entry.size >= MIN_OFFER_SIZE) ? entry.price : undefined`
OfferPrice(entry) ==
  IF entry.present /\ entry.size >= MIN_OFFER_SIZE THEN entry.price ELSE Absent

\* a lay filter without the minimum implied probability
LayPrice_NoFloor(rawLayPrice) ==
  IF TruthyNum(rawLayPrice) THEN rawLayPrice ELSE Absent

\* `(rawLayPrice && betfairOddsToPercent(rawLayPrice) >= MIN_LAY_PERCENT)
\*    ? rawLayPrice : undefined`
LayPrice(rawLayPrice) ==
  IF /\ TruthyNum(rawLayPrice)
     /\ betfairOddsToPercent(rawLayPrice) >= MIN_LAY_PERCENT * PercentScale
  THEN rawLayPrice ELSE Absent

\* `entry?.size`
EntrySize(entry) == IF entry.present THEN entry.size ELSE Absent

\* a flag that also fires when a lay quote exists
ThinLiquidity_IgnoresLay(backSize, laySize) ==
  backSize # Absent /\ backSize < MIN_OFFER_SIZE

\* `!!(backSize !== undefined && backSize < MIN_OFFER_SIZE && !laySize)`
ThinLiquidity(backSize, laySize) ==
  backSize # Absent /\ backSize < MIN_OFFER_SIZE /\ ~TruthyNum(laySize)

\* `if (price) odds = betfairOddsToPercent(price)`
QuoteOdds(price) ==
  IF TruthyNum(price) THEN betfairOddsToPercent(price) ELSE Absent

Abs(x) == IF x < 0 THEN -x ELSE x

\* a midpoint that ranks a one-sided runner by its back price
RunnerOdds_BackAlone(backOdds, layOdds) ==
  IF backOdds # Absent /\ layOdds # Absent
  THEN RoundDiv(backOdds + layOdds, 2)
  ELSE IF backOdds # Absent THEN backOdds ELSE 0

\* odds: the midpoint to 2 decimals when both sides are there, else 0
RunnerOdds(backOdds, layOdds) ==
  IF backOdds # Absent /\ layOdds # Absent
  THEN RoundDiv(backOdds + layOdds, 2)
  ELSE 0

\* a spread that keeps the sign of backOdds - layOdds
RunnerSpread_Signed(backOdds, layOdds) ==
  IF backOdds # Absent /\ layOdds # Absent
  THEN backOdds - layOdds
  ELSE Absent

\* spread: |backOdds - layOdds| to 2 decimals when both sides are there
RunnerSpread(backOdds, layOdds) ==
  IF backOdds # Absent /\ layOdds # Absent
  THEN RoundDiv(Abs(backOdds - layOdds), 1)
  ELSE Absent

\* a flag raised by any back quote
BackOnly_AnyBack(backOdds, layOdds) == backOdds # Absent

\* `backOdds !== undefined && layOdds === undefined`
BackOnly(backOdds, layOdds) == backOdds # Absent /\ layOdds = Absent

\* one round of `for (const runner of book.runners)`: the Outcome pushed
normalizeRunner(runner) ==
  LET backPrice == OfferPrice(runner.back)
      layPrice  == LayPrice(OfferPrice(runner.lay))
      backSize  == EntrySize(runner.back)
      laySize   == EntrySize(runner.lay)
      backOdds  == QuoteOdds(backPrice)
      layOdds   == QuoteOdds(layPrice)
  IN [ name          |-> runner.selectionId,
       odds          |-> RunnerOdds(backOdds, layOdds),
       backOdds      |-> backOdds,
       layOdds       |-> layOdds,
       spread        |-> RunnerSpread(backOdds, layOdds),
       backSize      |-> backSize,
       laySize       |-> laySize,
       thinLiquidity |-> ThinLiquidity(backSize, laySize),
       backOnly      |-> BackOnly(backOdds, layOdds) ]

\* an outcome list left in the book's order
sortOutcomes_Unsorted(outcomes) == outcomes

\* `outcomes.sort((a, b) => b.odds - a.odds)`
sortOutcomes(outcomes) == sortMarkets(outcomes, "odds")

\* `x || y` on numbers
OrElse(x, y) == IF TruthyNum(x) THEN x ELSE y

\* `book?.status` to MarketStatus
BookStatus(book) ==
  IF book.present /\ book.status = "OPEN" THEN "open"
  ELSE IF book.present /\ book.status \in {"CLOSED", "SUSPENDED"} THEN "closed"
  ELSE "unknown"

\* the book argument of normalizeMarket when it is undefined
NoBook ==
  [ present |-> FALSE, status |-> "", totalMatched |-> 0,
    totalAvailable |-> 0, runners |-> <<>> ]

\* BetfairClient.normalizeMarket
normalizeMarket(catalogue, book) ==
  LET has      == book.present /\ Len(book.runners) > 0
      outcomes == IF has
                  THEN sortOutcomes([i \in 1..Len(book.runners) |->
                                       normalizeRunner(book.runners[i])])
                  ELSE <<>>
      volumeGBP == OrElse(IF book.present THEN book.totalMatched ELSE Absent,
                          OrElse(catalogue.totalMatched, 0))
      liquidityGBP == OrElse(IF book.present THEN book.totalAvailable
                             ELSE Absent, 0)
  IN [ platform    |-> "betfair",
       id          |-> catalogue.marketId,
       hasOutcomes |-> has,
       outcomes    |-> outcomes,
       odds        |-> IF has THEN OrElse(outcomes[1].odds, 0) ELSE 0,
       volume      |-> gbpToUsd(volumeGBP, DefaultGbpToUsd),
       liquidity   |-> gbpToUsd(liquidityGBP, DefaultGbpToUsd),
       status      |-> BookStatus(book) ]

\* ------------------------------------------------- Polymarket normalizer
\* A Polymarket price is a whole number of 1/PolyPriceScale (0.22004 is
\* 22004).
PolyPriceScale == 100000

\* polymarketOddsToPercent: price * 100 to 2 decimals
polymarketOddsToPercent(price) ==
  RoundDiv(price * 100 * PercentScale, PolyPriceScale)

\* The values of the page payload, as JavaScript has them: a string (its
\* text), a number, null, undefined.
JsString(t) == [type |-> "string", text |-> t, value |-> 0]
JsNumber(v) == [type |-> "number", text |-> <<>>, value |-> v]
JsNull      == [type |-> "null", text |-> <<>>, value |-> 0]
JsUndefined == [type |-> "undefined", text |-> <<>>, value |-> 0]

\* The text of a string: the decimal text of a number ("0.22004"), or
\* other words ("Yes", "abc", "null"), told apart by a number w.
NumText(v)  == [numeric |-> TRUE,  value |-> v]
WordText(w) == [numeric |-> FALSE, value |-> w]

\* the number that is not one
NaN == -2

\* String(x)
String(x) ==
  CASE x.type = "string" -> x.text
    [] x.type = "number" -> IF x.value = NaN THEN WordText(0)
                            ELSE NumText(x.value)
    [] OTHER             -> WordText(0)

\* parseFloat(text)
parseFloat(text) == IF text.numeric THEN text.value ELSE NaN

\* `x || 0` on a number
OrZero(x) == IF x = NaN \/ x = 0 THEN 0 ELSE x

\* JSON.stringify of one array element: a string in quotes, a number bare,
\* null for NaN, null and undefined
JsonToken(x) ==
  CASE x.type = "string" -> [tok |-> "quoted", text |-> x.text, value |-> 0]
    [] x.type = "number" /\ x.value # NaN ->
         [tok |-> "bare", text |-> <<>>, value |-> x.value]
    [] OTHER -> [tok |-> "null", text |-> <<>>, value |-> 0]

\* JSON.parse of one array element
JsonValue(token) ==
  CASE token.tok = "quoted" -> JsString(token.text)
    [] token.tok = "bare"   -> JsNumber(token.value)
    [] OTHER                -> JsNull

\* JSON.stringify(array): the text, as the list of its element tokens
JSONstringify(items) == [i \in 1..Len(items) |-> JsonToken(items[i])]

\* JSON.parse(text) of the text of an array
JSONparse(tokens) == [i \in 1..Len(tokens) |-> JsonValue(tokens[i])]

\* The outcomes / outcomePrices field of a search market: an array, a JSON
\* string of an array, a string JSON.parse rejects, or no value at all (or
\* the empty string).
Encodings == {"array", "json", "malformed", "missing"}

ArrayField(items) == [enc |-> "array", items |-> items, tokens |-> <<>>]
JsonField(tokens) == [enc |-> "json", items |-> <<>>, tokens |-> tokens]
MalformedField    == [enc |-> "malformed", items |-> <<>>, tokens |-> <<>>]
MissingField      == [enc |-> "missing", items |-> <<>>, tokens |-> <<>>]

\* `Array.isArray(f) ? f : JSON.parse(f || '[]')` raises
ParseRaises(field) == field.enc = "malformed"

\* a decoder that knows arrays only
ParseField_ArraysOnly(field) ==
  IF field.enc = "array" THEN field.items ELSE <<>>

\* `Array.isArray(f) ? f : JSON.parse(f || '[]')`
ParseField(field) ==
  CASE field.enc = "array" -> field.items
    [] field.enc = "json"  -> JSONparse(field.tokens)
    [] OTHER               -> <<>>

\* `parseFloat(String(outcomePrices[i])) || 0`
PriceAt(prices, i) ==
  OrZero(parseFloat(String(IF i <= Len(prices) THEN prices[i]
                           ELSE JsUndefined)))

\* a normalizer that raised instead of returning a market
RaisedMarket == [platform |-> "raised"]

\* `outcomes[0]?.odds || 50`
PrimaryOdds(outcomes) == OrElse(outcomes[1].odds, 50 * PercentScale)

\* normalizeMarketWithEvent, given whether its try block raised
MarketWithEvent(market, event, raised) ==
  LET names    == ParseField(market.outcomes)
      prices   == ParseField(market.outcomePrices)
      has      == ~raised /\ Len(names) > 0 /\ Len(prices) > 0
      outcomes == IF has
                  THEN [i \in 1..Len(names) |->
                          [ name |-> names[i],
                            odds |-> polymarketOddsToPercent(
                                       PriceAt(prices, i)) ]]
                  ELSE <<>>
  IN [ platform    |-> "polymarket",
       id          |-> market.id,
       hasOutcomes |-> has,
       outcomes    |-> outcomes,
       odds        |-> IF has THEN PrimaryOdds(outcomes)
                       ELSE 50 * PercentScale,
       volume      |-> OrElse(event.volume, OrElse(market.volume, 0)),
       liquidity   |-> OrElse(event.liquidity, OrElse(market.liquidity, 0)),
       status      |-> IF market.closed THEN "closed"
                       ELSE IF market.active /\ market.acceptingOrders
                       THEN "open" ELSE "unknown" ]

\* a normalizer without the try / catch around the decoding
normalizeMarketWithEvent_NoCatch(market, event) ==
  IF ParseRaises(market.outcomes) \/ ParseRaises(market.outcomePrices)
  THEN RaisedMarket
  ELSE MarketWithEvent(market, event, FALSE)

\* PolymarketClient.normalizeMarketWithEvent
normalizeMarketWithEvent(market, event) ==
  MarketWithEvent(market, event,
                  ParseRaises(market.outcomes)
                    \/ ParseRaises(market.outcomePrices))

\* PolymarketClient.normalizeEventToMarket
normalizeEventToMarket(event) ==
  [ platform    |-> "polymarket",
    id          |-> event.id,
    hasOutcomes |-> FALSE,
    outcomes    |-> <<>>,
    odds        |-> 50 * PercentScale,
    volume      |-> OrElse(event.volume, 0),
    liquidity   |-> OrElse(event.liquidity, 0),
    status      |-> IF event.closed THEN "closed"
                    ELSE IF event.active THEN "open" ELSE "unknown" ]

\* ------------------------------------------- searches over several records
\* what a client's search gives: its markets, or it raises; and how many
\* listMarketBook calls it sent
SearchList(markets, bookCalls) ==
  [kind |-> "list", markets |-> markets, bookCalls |-> bookCalls]
SearchRaised(bookCalls) ==
  [kind |-> "raised", markets |-> <<>>, bookCalls |-> bookCalls]

\* PolymarketClient.search from the events of the page on: one market per
\* event, by volume, cut at the limit; a normalizer that raises ends it
PolymarketSearchPage(events, options) ==
  LET markets == [i \in 1..Len(events) |->
                    IF Len(events[i].markets) = 0
                    THEN normalizeEventToMarket(events[i])
                    ELSE normalizeMarketWithEvent(events[i].markets[1],
                                                  events[i])]
  IN IF \E i \in 1..Len(events) : markets[i].platform = "raised"
     THEN SearchRaised(0)
     ELSE SearchList(PolymarketSearch(markets, options), 0)

\* a lookup that takes the first book whatever its market
BookMapGet_First(books, marketId) ==
  IF Len(books) = 0 THEN NoBook ELSE books[1].book

\* `new Map(books.map(b => [b.marketId, b])).get(marketId)`
BookMapGet(books, marketId) ==
  LET at == { j \in 1..Len(books) : books[j].marketId = marketId }
  IN IF at = {} THEN NoBook
     ELSE books[CHOOSE j \in at : \A k \in at : k <= j].book

\* BetfairClient.search from the catalogue answer on
BetfairSearchPage(catalogues, answer) ==
  IF Len(catalogues) = 0 THEN SearchList(<<>>, 0)
  ELSE IF answer.kind = "throws" THEN SearchRaised(1)
  ELSE LET books == IF answer.kind = "ok" THEN answer.books ELSE <<>>
       IN SearchList([i \in 1..Len(catalogues) |->
                        normalizeMarket(catalogues[i],
                                        BookMapGet(books,
                                                   catalogues[i].marketId))],
                     1)

\* ------------------------------------------------------ normalizer inputs
\* the longest runner list of a book
MaxRunners == 3
\* the longest outcome list of a Polymarket market
MaxOutcomes == 3

\* best prices: 1.00, 4.1667 (24%), 5 (20%), 50 (2%), 100 (1%)
Prices == {10000, 41667, 50000, 500000, 1000000}
\* sizes in pounds, around MIN_OFFER_SIZE
Sizes == {1, 2, 3}

Quotes == {NoQuote} \cup [present : {TRUE}, price : Prices, size : Sizes]

Runner(id, back, lay) == [selectionId |-> id, back |-> back, lay |-> lay]

Quote(price, size) == [present |-> TRUE, price |-> price, size |-> size]

\* the runners the longer books are made of: two-sided at 20% / 24%,
\* two-sided at 24% / 100%, back only, lay only, an under-sized back alone,
\* a back with a lay under the floor, no quote
RunnerShapes ==
  { <<Quote(50000, 2), Quote(41667, 3)>>,
    <<Quote(41667, 2), Quote(10000, 2)>>,
    <<Quote(50000, 3), NoQuote>>,
    <<NoQuote, Quote(41667, 2)>>,
    <<Quote(50000, 1), NoQuote>>,
    <<Quote(41667, 2), Quote(1000000, 3)>>,
    <<NoQuote, NoQuote>> }

\* runner lists: every single runner, and the lists of 2..MaxRunners
\* runners of the shapes above
RunnerLists ==
  { <<Runner(1, b, l)>> : b \in Quotes, l \in Quotes }
  \cup UNION { { [i \in 1..n |-> Runner(i, f[i][1], f[i][2])] :
                   f \in [1..n -> RunnerShapes] } : n \in 2..MaxRunners }

Book(status, totalMatched, totalAvailable, runners) ==
  [ present |-> TRUE, status |-> status, totalMatched |-> totalMatched,
    totalAvailable |-> totalAvailable, runners |-> runners ]

\* the books of listMarketBook: open ones over the runner lists, and the
\* other statuses and totals over one runner list
Books ==
  { Book("OPEN", 100, 40, rs) : rs \in RunnerLists }
  \cup { Book(st, tm, 0, rs) :
           st \in {"OPEN", "SUSPENDED", "CLOSED", "INACTIVE"},
           tm \in {0, 100},
           rs \in { <<>>, <<Runner(1, Quote(50000, 2), Quote(41667, 3))>> } }
  \cup {NoBook}

Catalogues == [marketId : {"1.234"}, totalMatched : {Absent, 0, 50}]

\* prices 0, 0.22004 and 0.78
PolyPrices == {0, 22004, 78000}

\* a price as the payload carries it: a number, the text of one, or "abc"
PriceValues ==
  { JsNumber(v) : v \in PolyPrices }
  \cup { JsString(NumText(v)) : v \in {22004, 78000} }
  \cup { JsString(WordText(0)) }

SeqsUpTo(S, n) == UNION { [1..k -> S] : k \in 0..n }

\* the i-th outcome name
OutcomeName(i) == JsString(WordText(i))

OutcomeNames == { [i \in 1..k |-> OutcomeName(i)] : k \in 0..MaxOutcomes }

\* a list in every encoding, and the two fields that carry no list
Fields(lists) ==
  { ArrayField(l) : l \in lists }
  \cup { JsonField(JSONstringify(l)) : l \in lists }
  \cup { MalformedField, MissingField }

PolyMarkets ==
  [ id : {"540816"},
    outcomes : Fields(OutcomeNames),
    outcomePrices : Fields(SeqsUpTo(PriceValues, MaxOutcomes)),
    volume : {Absent}, liquidity : {Absent},
    closed : {FALSE}, active : {TRUE}, acceptingOrders : {TRUE} ]

PolyEvents ==
  [ id : {"21742"}, volume : {Absent, 1000}, liquidity : {0},
    closed : {FALSE}, active : {TRUE} ]

\* the longest page of search events
MaxEvents == 2
\* the longest catalogue answer
MaxCatalogue == 2

GoodNames  == <<OutcomeName(1), OutcomeName(2)>>
GoodPrices == <<JsString(NumText(22004)), JsString(NumText(78000))>>

\* the first market of an event, by its two fields
PageMarket(names, prices) ==
  [ id |-> 0, outcomes |-> names, outcomePrices |-> prices,
    volume |-> Absent, liquidity |-> Absent,
    closed |-> FALSE, active |-> TRUE, acceptingOrders |-> TRUE ]

\* the market lists the events of a page are made of: none, a well-formed
\* market in either encoding, prices that cannot be decoded, names that
\* are absent, empty lists
EventShapes ==
  { <<>>,
    <<PageMarket(ArrayField(GoodNames), ArrayField(GoodPrices))>>,
    <<PageMarket(JsonField(JSONstringify(GoodNames)),
                 JsonField(JSONstringify(GoodPrices)))>>,
    <<PageMarket(ArrayField(GoodNames), MalformedField)>>,
    <<PageMarket(MissingField, ArrayField(GoodPrices))>>,
    <<PageMarket(ArrayField(<<>>), ArrayField(<<>>))>> }

\* the i-th event of a page
PageEvent(i, markets) ==
  [ id |-> i, volume |-> IF Len(markets) = 0 THEN Absent ELSE 1000,
    liquidity |-> 0, closed |-> FALSE, active |-> TRUE,
    markets |-> [j \in 1..Len(markets) |-> [markets[j] EXCEPT !.id = i]] ]

PolyPages ==
  UNION { { [i \in 1..n |-> PageEvent(i, f[i])] :
              f \in [1..n -> EventShapes] } : n \in 0..MaxEvents }

\* the options of a search without any
NoOptions ==
  [ platform |-> Undefined, minVolume |-> Absent, maxResults |-> Absent,
    sortBy |-> Undefined ]

\* catalogue answers: the i-th entry is market i
CatalogueLists ==
  UNION { { [i \in 1..n |-> [marketId |-> i, totalMatched |-> f[i]]] :
              f \in [1..n -> {Absent, 50}] } : n \in 0..MaxCatalogue }

\* the book of a market with one runner backed at 20% and laid at 24%
PricedBook ==
  Book("OPEN", 100, 40, <<Runner(1, Quote(50000, 2), Quote(41667, 3))>>)

\* how listMarketBook answers a search: not ok, the fetch raises, or ok with
\* the books of some of the markets
BookAnswers ==
  { [kind |-> "notOk", books |-> <<>>], [kind |-> "throws", books |-> <<>>] }
  \cup { [kind |-> "ok", books |-> bs] :
           bs \in SeqsUpTo([marketId : 1..MaxCatalogue, book : {PricedBook}],
                           MaxCatalogue) }

NormalizerInputs ==
  [platform : {"betfair"}, catalogue : Catalogues, book : Books]
  \cup [platform : {"polymarket"}, market : PolyMarkets, event : PolyEvents]
  \cup [platform : {"polymarketSearch"}, events : PolyPages]
  \cup [ platform : {"betfairSearch"}, catalogues : CatalogueLists,
         answer : BookAnswers ]

NoInput == [platform |-> "none"]
NoMarket == [platform |-> "none"]

\* the longest list handed to sortMarkets
MaxSortLen == 3

\* the lists sortMarkets is called with: markets of both platforms, the
\* i-th with id i
SortLists ==
  UNION { { [i \in 1..n |-> UnifiedMarket(f[i][1], i, f[i][2])] :
              f \in [1..n -> Platforms \X MarketKinds] } : n \in 0..MaxSortLen }

\* no call of sortMarkets
NoSortCall ==
  [ step |-> "none", markets |-> <<>>, sortBy |-> "volume", array |-> <<>>,
    once |-> <<>>, twice |-> <<>> ]
NoSearch == [kind |-> "none", markets |-> <<>>, bookCalls |-> 0]

\* ----------------------------------------------------- client operations
\* the callers that use one aggregator (and so one client of each platform)
\* at the same time
Callers == {"a", "b"}

\* `15 * 60 * 1000` ms, in units of 5 minutes
SessionTTL == 3
\* the clock stops here
MaxTime == 3

\* `sessionToken: string | null = null`
NoToken == 0
\* `lastError: string | null = null`
Null == "null"

\* a platform argument outside the Platform type
PlatformTags == Platforms \cup {"kalshi"}

\* what a caller asks for: aggregator.getMarket(id, platform),
\* aggregator.testAuth(), betfair.search, betfair.listEventTypes
Requests ==
  [op : {"search", "listEventTypes", "testAuth"}, platform : {"betfair"}]
  \cup [op : {"getMarket"}, platform : PlatformTags]

\* how the login endpoint answers: loginStatus SUCCESS, another status (or
\* a response that is not ok), a body JSON.parse rejects, a transport error
LoginResponses == {"SUCCESS", "rejected", "unparsable", "transport"}

\* how listMarketCatalogue answers: ok with no / some entries, not ok with
\* INVALID_APP_KEY or anything else, or the fetch raises
CatalogueResponses == {"okEmpty", "okSome", "invalidAppKey", "notOk", "throws"}

\* how listEventTypes answers
EventTypeResponses == {"ok", "invalidAppKey", "notOk", "throws"}

\* how listMarketBook answers: ok with / without the books asked for, not
\* ok, or the fetch raises
BookResponses == {"ok", "okEmpty", "notOk", "throws"}

\* how polymarket.com/event/<slug> answers: status 404, another status that
\* is not ok, a page without __NEXT_DATA__, one whose payload JSON.parse
\* rejects, one whose payload holds no event, one with the event, or the
\* fetch raises
PageResponses ==
  {"404", "500", "noPayload", "badJson", "noEvent", "event", "throws"}

\* the number of entries of a non-empty catalogue answer
CatalogueSize == 2

AuthFailedError  == "Betfair authentication failed"
LoginFailedError == "Certificate login failed - check username/password and cert files"
AppKeySearchError == "App key rejected by Exchange API - needs activation at developer.betfair.com"
AppKeyProbeError == "App key rejected by Exchange API. The key may need activation (can take 48h) or upgrade at developer.betfair.com"
ApiError         == "Betfair API error: 400 Bad Request"
ExchangeError    == "Exchange API error: 400 Bad Request"
FetchError       == "fetch failed"
UnexpectedError  == "Unexpected error: fetch failed"
PageError        == "Polymarket getMarket failed: 500"
ParseError       == "Unexpected token < in JSON"

\* what an operation gave its caller
NoValue == [kind |-> "none"]
Raised(msg) == [kind |-> "raised", error |-> msg]
NullResult == [kind |-> "null"]
MarketResult(withBook) == [kind |-> "market", book |-> withBook]
ListResult(n, withBooks) == [kind |-> "list", n |-> n, books |-> withBooks]
BoolResult(b) == [kind |-> "boolean", value |-> b]

\* ensureAuth: `this.sessionToken && this.tokenExpiry &&
\*              this.tokenExpiry > new Date()`
TokenFresh(token, expiry, t) ==
  token # NoToken /\ expiry # Absent /\ expiry > t

\* a report that never carries the error
AuthReport_NoError(isEnabled, authenticated, err) ==
  [ kind |-> "report", enabled |-> isEnabled,
    authenticated |-> authenticated, error |-> Undefined ]

\* aggregator.testAuth: results.betfair after `await betfair.testAuth()`:
\* `if (!authenticated) { const err = getLastError(); if (err) error = err }`
AuthReport(isEnabled, authenticated, err) ==
  [ kind |-> "report", enabled |-> isEnabled,
    authenticated |-> authenticated,
    error |-> IF ~authenticated /\ err # Null /\ TruthyStr(err)
              THEN err ELSE Undefined ]

\* the first exchange API call of a Betfair operation
FirstCall(op) ==
  IF op \in {"search", "getMarket"} THEN "listMarketCatalogue"
  ELSE "listEventTypes"

FirstResponses(op) ==
  IF op \in {"search", "getMarket"} THEN CatalogueResponses
  ELSE EventTypeResponses

\* a step of an operation: where it goes on, what it returns or raises, and
\* the lastError it leaves
Step(pc, result, err) == [pc |-> pc, result |-> result, lastError |-> err]

\* the operation when the client is not enabled
WhenDisabled(op) ==
  CASE op = "search"         -> ListResult(0, FALSE)
    [] op = "listEventTypes" -> ListResult(0, FALSE)
    [] op = "getMarket"      -> NullResult
    [] op = "testAuth"       -> AuthReport(FALSE, FALSE, Null)

\* the operation after `ensureAuth()` gave false
WhenNotAuthed(op, err) ==
  CASE op = "search" ->
         Step("done", Raised(AuthFailedError), AuthFailedError)
    [] op = "testAuth" ->
         Step("done", AuthReport(TRUE, FALSE, LoginFailedError),
              LoginFailedError)
    [] OTHER ->
         Step("done", Raised(AuthFailedError), err)

\* the operation after the answer r to its first exchange API call
AfterFirst(op, r, err) ==
  CASE op = "search" ->
         ( CASE r = "okEmpty"       -> Step("done", ListResult(0, FALSE), err)
             [] r = "okSome"        -> Step("book", NoValue, err)
             [] r = "invalidAppKey" -> Step("done", Raised(AppKeySearchError),
                                            AppKeySearchError)
             [] r = "notOk"         -> Step("done", Raised(ApiError), ApiError)
             [] r = "throws"        -> Step("done", Raised(FetchError), err) )
    [] op = "getMarket" ->
         ( CASE r = "okEmpty" -> Step("done", NullResult, err)
             [] r = "okSome"  -> Step("book", NoValue, err)
             [] r = "throws"  -> Step("done", Raised(FetchError), err)
             [] OTHER         -> Step("done", Raised(ApiError), err) )
    [] op = "listEventTypes" ->
         ( CASE r = "ok"     -> Step("done", ListResult(1, FALSE), err)
             [] r = "throws" -> Step("done", Raised(FetchError), err)
             [] OTHER        -> Step("done", Raised(ApiError), err) )
    [] op = "testAuth" ->
         ( CASE r = "ok" ->
                  Step("done", AuthReport(TRUE, TRUE, err), err)
             [] r = "invalidAppKey" ->
                  Step("done", AuthReport(TRUE, FALSE, AppKeyProbeError),
                       AppKeyProbeError)
             [] r = "notOk" ->
                  Step("done", AuthReport(TRUE, FALSE, ExchangeError),
                       ExchangeError)
             [] r = "throws" ->
                  Step("done", AuthReport(TRUE, FALSE, UnexpectedError),
                       UnexpectedError) )

\* the operation after the answer r to listMarketBook
AfterBook(op, r, err) ==
  IF r = "throws" THEN Step("done", Raised(FetchError), err)
  ELSE IF op = "search"
       THEN Step("done", ListResult(CatalogueSize, r = "ok"), err)
       ELSE Step("done", MarketResult(r = "ok"), err)

\* a getMarket for which status 404 is one more status that is not ok
PageResult_NotOkFirst(r) ==
  CASE r \in {"404", "500"}           -> Raised(PageError)
    [] r = "badJson"                  -> Raised(ParseError)
    [] r = "throws"                   -> Raised(FetchError)
    [] r \in {"noPayload", "noEvent"} -> NullResult
    [] r = "event"                    -> MarketResult(FALSE)

\* PolymarketClient.getMarket after the answer r to the page fetch
PageResult(r) ==
  CASE r = "404"       -> NullResult
    [] r = "500"       -> Raised(PageError)
    [] r = "noPayload" -> NullResult
    [] r = "badJson"   -> Raised(ParseError)
    [] r = "noEvent"   -> NullResult
    [] r = "event"     -> MarketResult(FALSE)
    [] r = "throws"    -> Raised(FetchError)

\* a caller that has asked for nothing
IdleCaller ==
  [ op |-> "none", platform |-> "none", pc |-> "idle", client |-> "none",
    \* ensureAuth ran, and the token, expiry and time it looked at
    checked |-> FALSE, seen |-> [token |-> NoToken, expiry |-> Absent, at |-> 0],
    loginNo |-> 0,
    loginAnswer |-> "none", calls |-> <<>>, answers |-> <<>>,
    result |-> NoValue ]

\* an exchange API call as sent: getHeaders() reads the token at that time
ExchangeCall(api, token, expiry, t) ==
  [api |-> api, token |-> token, expiry |-> expiry, at |-> t]

\* ---------------------------------------------------------- aggregator
VARIABLES
  sessionToken,    \* BetfairClient.sessionToken
  tokenExpiry,     \* BetfairClient.tokenExpiry
  lastError,       \* BetfairClient.lastError
  now,             \* the clock (Date.now())
  logins,          \* the login requests sent so far
  caller,          \* per caller: its operation and how far it got
  normInput,       \* what a normalizer is given
  normMarket,      \* the UnifiedMarket it produced
  normTwin,        \* the market of the same record with its lists re-encoded
  normMarkets,     \* what a client's search made of a page of records
  sortCall,        \* a call of sortMarkets: its array, its key, its results
  enabled,         \* isEnabled() of each client (from config.json)
  pc,              \* "idle", "awaiting" (at Promise.all), "done", "raised"
  query,           \* searchAll's query
  options,         \* searchAll's options
  call,            \* per platform: "notIssued", "pending", "settled"
  searchPromises,  \* the platforms whose wrapped search was pushed, in order
  outcome,         \* per platform: what its client's search did
  settled,         \* per platform: how its wrapped promise settled
  settleOrder,     \* the platforms in the order their searches settled
  result           \* what searchAll returned

searchVars == <<enabled, pc, query, options, call, searchPromises, outcome,
                settled, settleOrder, result>>
normVars == <<normInput, normMarket, normTwin, normMarkets, sortCall>>
clientVars == <<sessionToken, tokenExpiry, lastError, now, logins, caller>>
vars == <<searchVars, normVars, clientVars>>

NoOutcome == [kind |-> "none"]
NoSettle  == [state |-> "pending"]
NoResult  == [markets |-> <<>>, meta |-> [query |-> "", totalResults |-> -1]]

\* the options the search command accepts (zod schema of cli.ts)
SearchOptions ==
  [ platform   : Platforms \cup {Undefined},
    minVolume  : {Absent} \cup 0..MaxMinVolume,
    maxResults : {Absent} \cup 1..MaxCap,
    sortBy     : SortKeys \cup {Undefined} ]

\* a candidate test that forgets isEnabled()
IsCandidate_IgnoresEnabled(p, en, opts) ==
  opts.platform = Undefined \/ opts.platform = p

\* `isEnabled() && (!targetPlatform || targetPlatform === p)`
IsCandidate(p, en, opts) ==
  en[p] /\ (opts.platform = Undefined \/ opts.platform = p)

\* the pushes of searchAll, polymarket first
BuildSearchPromises(en, opts) ==
  (IF IsCandidate("polymarket", en, opts) THEN <<"polymarket">> ELSE <<>>)
  \o (IF IsCandidate("betfair", en, opts) THEN <<"betfair">> ELSE <<>>)

SeqRange(s) == { s[i] : i \in 1..Len(s) }

\* `error instanceof Error ? error.message : String(error)`
ErrorText(e) == IF e.isError THEN e.message ELSE ToString(e.value)

\* .then(markets => ({ platform, markets }))
OnFulfilled(p, markets) ==
  [state |-> "fulfilled", value |-> [platform |-> p, markets |-> markets]]

\* a wrapper that lets the failure through
OnRejected_Propagates(p, e) ==
  [state |-> "rejected", reason |-> ErrorText(e)]

\* .catch(error => ({ platform, error: ... }))
OnRejected(p, e) ==
  [state |-> "fulfilled", value |-> [platform |-> p, error |-> ErrorText(e)]]

\* a join that is over with the first promise that settles
PromiseAll_FirstSettled(promises, st) ==
  IF Len(promises) = 0 \/ \E i \in 1..Len(promises) :
                            st[promises[i]].state = "fulfilled"
    THEN "fulfilled"
  ELSE "pending"

\* a join that never settles when there is nothing to wait for
PromiseAll_PendingWhenEmpty(promises, st) ==
  IF \E i \in 1..Len(promises) : st[promises[i]].state = "rejected"
    THEN "rejected"
  ELSE IF Len(promises) > 0
          /\ \A i \in 1..Len(promises) : st[promises[i]].state = "fulfilled"
    THEN "fulfilled"
  ELSE "pending"

\* Promise.all: rejected as soon as one promise is, fulfilled once all are
PromiseAll(promises, st) ==
  IF \E i \in 1..Len(promises) : st[promises[i]].state = "rejected"
    THEN "rejected"
  ELSE IF \A i \in 1..Len(promises) : st[promises[i]].state = "fulfilled"
    THEN "fulfilled"
  ELSE "pending"

\* the values in the order the promises settled in
Results_InSettleOrder(promises, st) ==
  LET done == SelectSeq(settleOrder, LAMBDA p : st[p].state = "fulfilled")
  IN [i \in 1..Len(done) |-> st[done[i]].value]

\* the array Promise.all resolves with: the values, in the promises' order
Results(promises, st) ==
  LET done == SelectSeq(promises, LAMBDA p : st[p].state = "fulfilled")
  IN [i \in 1..Len(done) |-> st[done[i]].value]

\* `if (result.error)`
HasError(r) == "error" \in DOMAIN r /\ TruthyStr(r.error)

\* `else if (result.markets)`: an array is truthy, even an empty one
HasMarkets(r) == "markets" \in DOMAIN r

\* one round of `for (const result of results)`
ProcessResult(r, acc) ==
  IF HasError(r) THEN
    [ platforms  |-> [acc.platforms EXCEPT ![r.platform] =
                        [status |-> "error", error |-> r.error]],
      warnings   |-> Append(acc.warnings, r.platform \o ": " \o r.error),
      allMarkets |-> acc.allMarkets ]
  ELSE IF HasMarkets(r) THEN
    [ platforms  |-> [acc.platforms EXCEPT ![r.platform] =
                        [status |-> "success", count |-> Len(r.markets)]],
      warnings   |-> acc.warnings,
      allMarkets |-> acc.allMarkets \o r.markets ]
  ELSE acc

RECURSIVE ProcessResults(_, _, _)
ProcessResults(results, i, acc) ==
  IF i > Len(results) THEN acc
  ELSE ProcessResults(results, i + 1, ProcessResult(results[i], acc))

\* `if (options.minVolume) allMarkets = filterByMinVolume(...)`
ApplyFilters(markets, opts) ==
  IF TruthyNum(opts.minVolume) THEN filterByMinVolume(markets, opts.minVolume)
  ELSE markets

\* `sortMarkets(allMarkets, options.sortBy || 'volume')`
ApplySort(markets, opts) ==
  sortMarkets(markets, IF opts.sortBy = Undefined THEN "volume" ELSE opts.sortBy)

\* a limit that keeps one market too many
LimitResults_OffByOne(markets, opts) ==
  IF TruthyNum(opts.maxResults) THEN Slice0(markets, opts.maxResults + 1)
  ELSE markets

\* `if (options.maxResults) allMarkets = allMarkets.slice(0, maxResults)`
LimitResults(markets, opts) ==
  IF TruthyNum(opts.maxResults) THEN Slice0(markets, opts.maxResults)
  ELSE markets

\* a result whose totalResults counts the markets before the cut
Aggregate_CountsMerged(q, opts, results) ==
  LET start == [ platforms  |-> [p \in Platforms |-> [status |-> "disabled"]],
                 warnings   |-> <<>>,
                 allMarkets |-> <<>> ]
      acc     == ProcessResults(results, 1, start)
      markets == LimitResults(ApplySort(ApplyFilters(acc.allMarkets, opts), opts), opts)
  IN [ markets |-> markets,
       meta    |-> [ query        |-> q,
                     platforms    |-> acc.platforms,
                     totalResults |-> Len(acc.allMarkets),
                     warnings     |-> acc.warnings ] ]

\* searchAll after the await: process, filter, sort, limit, return
Aggregate(q, opts, results) ==
  LET start == [ platforms  |-> [p \in Platforms |-> [status |-> "disabled"]],
                 warnings   |-> <<>>,
                 allMarkets |-> <<>> ]
      acc     == ProcessResults(results, 1, start)
      markets == LimitResults(ApplySort(ApplyFilters(acc.allMarkets, opts), opts), opts)
  IN [ markets |-> markets,
       meta    |-> [ query        |-> q,
                     platforms    |-> acc.platforms,
                     totalResults |-> Len(markets),
                     warnings     |-> acc.warnings ] ]

\* no normalizer at work
NormalizerIdle ==
  /\ normInput = NoInput
  /\ normMarket = NoMarket
  /\ normTwin = NoMarket
  /\ normMarkets = NoSearch
  /\ sortCall = NoSortCall

\* a fresh client, no caller
ClientIdle ==
  /\ sessionToken = NoToken
  /\ tokenExpiry = Absent
  /\ lastError = Null
  /\ now = 0
  /\ logins = 0
  /\ caller = [c \in Callers |-> IdleCaller]

\* no searchAll at work
SearchIdle ==
  /\ pc = "idle"
  /\ query = ""
  /\ options = [platform |-> Undefined, minVolume |-> Absent,
                maxResults |-> Absent, sortBy |-> Undefined]
  /\ call = [p \in Platforms |-> "notIssued"]
  /\ searchPromises = <<>>
  /\ outcome = [p \in Platforms |-> NoOutcome]
  /\ settled = [p \in Platforms |-> NoSettle]
  /\ settleOrder = <<>>
  /\ result = NoResult

Init ==
  /\ enabled \in [Platforms -> BOOLEAN]
  /\ SearchIdle
  /\ NormalizerIdle
  /\ ClientIdle

\* the search command calls searchAll, which runs up to its await: the
\* search of every candidate platform is started
Search ==
  /\ pc = "idle"
  /\ \E q \in Queries, opts \in SearchOptions :
       /\ query' = q
       /\ options' = opts
       /\ searchPromises' = BuildSearchPromises(enabled, opts)
       /\ call' = [p \in Platforms |->
                     IF p \in SeqRange(BuildSearchPromises(enabled, opts))
                     THEN "pending" ELSE "notIssued"]
  /\ pc' = "awaiting"
  /\ UNCHANGED <<enabled, outcome, settled, settleOrder, result>>
  /\ UNCHANGED <<normVars, clientVars>>

\* a client's search returns its markets
SearchReturns(p) ==
  /\ pc = "awaiting"
  /\ call[p] = "pending"
  /\ \E raw \in RawLists(p) :
       /\ PlatformAnswers(p, raw, options)
       /\ LET markets == ClientSearch(p, raw, options) IN
            /\ outcome' = [outcome EXCEPT ![p] =
                             [kind |-> "list", markets |-> markets]]
            /\ settled' = [settled EXCEPT ![p] = OnFulfilled(p, markets)]
  /\ call' = [call EXCEPT ![p] = "settled"]
  /\ settleOrder' = Append(settleOrder, p)
  /\ UNCHANGED <<enabled, pc, query, options, searchPromises, result>>
  /\ UNCHANGED <<normVars, clientVars>>

\* a client's search raises
SearchRaises(p) ==
  /\ pc = "awaiting"
  /\ call[p] = "pending"
  /\ \E e \in ErrorValues :
       /\ outcome' = [outcome EXCEPT ![p] = [kind |-> "error", error |-> e]]
       /\ settled' = [settled EXCEPT ![p] = OnRejected(p, e)]
  /\ call' = [call EXCEPT ![p] = "settled"]
  /\ settleOrder' = Append(settleOrder, p)
  /\ UNCHANGED <<enabled, pc, query, options, searchPromises, result>>
  /\ UNCHANGED <<normVars, clientVars>>

\* Promise.all settles and searchAll runs to its end
Resume ==
  /\ pc = "awaiting"
  /\ PromiseAll(searchPromises, settled) # "pending"
  /\ IF PromiseAll(searchPromises, settled) = "rejected"
       THEN /\ pc' = "raised"
            /\ result' = result
       ELSE /\ pc' = "done"
            /\ result' = Aggregate(query, options,
                                    Results(searchPromises, settled))
  /\ UNCHANGED <<enabled, query, options, call, searchPromises, outcome,
                 settled, settleOrder>>
  /\ UNCHANGED <<normVars, clientVars>>

Next ==
  \/ Search
  \/ \E p \in Platforms : SearchReturns(p)
  \/ \E p \in Platforms : SearchRaises(p)
  \/ Resume

Spec == Init /\ [][Next]_vars

\* The continuation of searchAll after its await is a job of the event
\* loop: once Promise.all has settled it runs.  Whether a platform search
\* settles is up to the platform and its client; here every search that
\* was issued does settle, by returning or by raising.  Both conditions
\* are stated on what enables the step and on what it does to pc and call:
\* ResumeStep is enabled exactly when Resume is and a step of Next is a
\* ResumeStep exactly when it is a Resume step, and likewise SettleStep(p)
\* and the two actions that settle the search of p.
ResumeStep ==
  /\ pc = "awaiting"
  /\ PromiseAll(searchPromises, settled) # "pending"
  /\ pc' \in {"done", "raised"}

SettleStep(p) ==
  /\ pc = "awaiting"
  /\ call[p] = "pending"
  /\ call' = [call EXCEPT ![p] = "settled"]

SpecLive ==
  /\ Init
  /\ [][Next]_vars
  /\ WF_pc(ResumeStep)
  /\ \A p \in Platforms : WF_call(SettleStep(p))

TypeOK ==
  /\ pc \in {"idle", "awaiting", "done", "raised"}
  /\ \A p \in Platforms : call[p] \in {"notIssued", "pending", "settled"}

\* -------------------------------------------------------- normalization
\* a client is handed one platform answer and normalizes it
InitNormalize ==
  /\ enabled = [p \in Platforms |-> TRUE]
  /\ SearchIdle
  /\ normInput \in NormalizerInputs
  /\ normMarket = NoMarket
  /\ normTwin = NoMarket
  /\ normMarkets = NoSearch
  /\ sortCall = NoSortCall
  /\ ClientIdle

\* BetfairClient.normalizeMarket(catalogue, book)
NormalizeBetfair ==
  /\ normMarket = NoMarket
  /\ normInput.platform = "betfair"
  /\ normMarket' = normalizeMarket(normInput.catalogue, normInput.book)
  /\ UNCHANGED <<searchVars, normInput, normTwin, normMarkets, sortCall, clientVars>>

\* PolymarketClient.normalizeMarketWithEvent(market, event)
NormalizePolymarket ==
  /\ normMarket = NoMarket
  /\ normInput.platform = "polymarket"
  /\ normMarket' = normalizeMarketWithEvent(normInput.market, normInput.event)
  /\ UNCHANGED <<searchVars, normInput, normTwin, normMarkets, sortCall, clientVars>>

\* the record with the lists of the given fields as JSON strings
Reencoded(market, fields) ==
  [market EXCEPT
     !.outcomes = IF "outcomes" \in fields
                  THEN JsonField(JSONstringify(@.items)) ELSE @,
     !.outcomePrices = IF "outcomePrices" \in fields
                       THEN JsonField(JSONstringify(@.items)) ELSE @]

\* the same normalizer is given the record of native arrays again, with one
\* or both of its lists serialized
NormalizeReencoded ==
  /\ normInput.platform = "polymarket"
  /\ normMarket # NoMarket
  /\ normTwin = NoMarket
  /\ normInput.market.outcomes.enc = "array"
  /\ normInput.market.outcomePrices.enc = "array"
  /\ \E fields \in SUBSET {"outcomes", "outcomePrices"} :
       /\ fields # {}
       /\ normTwin' = normalizeMarketWithEvent(
                        Reencoded(normInput.market, fields), normInput.event)
  /\ UNCHANGED <<searchVars, normInput, normMarket, normMarkets, sortCall,
               clientVars>>

\* PolymarketClient.search, from the events of the page on
SearchPolymarketPage ==
  /\ normMarkets = NoSearch
  /\ normInput.platform = "polymarketSearch"
  /\ normMarkets' = PolymarketSearchPage(normInput.events, NoOptions)
  /\ UNCHANGED <<searchVars, normInput, normMarket, normTwin, sortCall,
               clientVars>>

\* BetfairClient.search, from the catalogue answer on
SearchBetfairPage ==
  /\ normMarkets = NoSearch
  /\ normInput.platform = "betfairSearch"
  /\ normMarkets' = BetfairSearchPage(normInput.catalogues, normInput.answer)
  /\ UNCHANGED <<searchVars, normInput, normMarket, normTwin, sortCall,
               clientVars>>

NextNormalize ==
  \/ NormalizeBetfair
  \/ NormalizePolymarket
  \/ NormalizeReencoded
  \/ SearchPolymarketPage
  \/ SearchBetfairPage

SpecNormalize == InitNormalize /\ [][NextNormalize]_vars

\* ---------------------------------------------------------------- sorting
\* sortMarkets is called on a list, and then on what it returned
InitSort ==
  /\ enabled = [p \in Platforms |-> TRUE]
  /\ SearchIdle
  /\ normInput = NoInput
  /\ normMarket = NoMarket
  /\ normTwin = NoMarket
  /\ normMarkets = NoSearch
  /\ \E l \in SortLists, k \in SortKeys :
       sortCall = [ step |-> "called", markets |-> l, sortBy |-> k,
                    array |-> l, once |-> <<>>, twice |-> <<>> ]
  /\ ClientIdle

\* sortMarkets(l, k)
SortMarkets ==
  /\ sortCall.step = "called"
  /\ LET r == SortedCopy(sortCall.array, sortCall.sortBy)
     IN sortCall' = [sortCall EXCEPT !.step = "sorted", !.array = r.array,
                                     !.once = r.result]
  /\ UNCHANGED <<searchVars, normInput, normMarket, normTwin, normMarkets,
                 clientVars>>

\* sortMarkets(sortMarkets(l, k), k)
SortAgain ==
  /\ sortCall.step = "sorted"
  /\ LET r == SortedCopy(sortCall.once, sortCall.sortBy)
     IN sortCall' = [sortCall EXCEPT !.step = "resorted", !.once = r.array,
                                     !.twice = r.result]
  /\ UNCHANGED <<searchVars, normInput, normMarket, normTwin, normMarkets,
                 clientVars>>

NextSort ==
  \/ SortMarkets
  \/ SortAgain

SpecSort == InitSort /\ [][NextSort]_vars

\* ------------------------------------------------------ client sessions
\* callers run one operation each on the same aggregator; every await of a
\* network call is a point where the other caller and the clock may move
InitClient ==
  /\ enabled \in [Platforms -> BOOLEAN]
  /\ SearchIdle
  /\ NormalizerIdle
  /\ ClientIdle

\* the caller's record once its Betfair operation has passed ensureAuth and
\* sent its first exchange API call
SendFirst(rec, token, expiry) ==
  [rec EXCEPT !.pc = "first",
              !.calls = Append(@, ExchangeCall(FirstCall(rec.op), token,
                                               expiry, now))]

\* a caller starts an operation, which runs up to its first await
Begin(c) ==
  /\ caller[c].pc = "idle"
  /\ \E req \in Requests :
       LET rec == [IdleCaller EXCEPT !.op = req.op, !.platform = req.platform]
       IN
       IF req.platform \notin Platforms
       THEN \* aggregator.getMarket: `default: return null`
            /\ caller' = [caller EXCEPT ![c] =
                 [rec EXCEPT !.pc = "done", !.result = NullResult]]
            /\ UNCHANGED <<lastError, logins>>
       ELSE IF req.platform = "polymarket"
       THEN /\ caller' = [caller EXCEPT ![c] =
                 IF enabled["polymarket"]
                 THEN [rec EXCEPT !.pc = "page", !.client = "polymarket"]
                 ELSE [rec EXCEPT !.pc = "done", !.client = "polymarket",
                                  !.result = NullResult]]
            /\ UNCHANGED <<lastError, logins>>
       ELSE IF ~enabled["betfair"]
       THEN /\ caller' = [caller EXCEPT ![c] =
                 [rec EXCEPT !.pc = "done",
                             !.client = IF req.op = "testAuth" THEN "none"
                                        ELSE "betfair",
                             !.result = WhenDisabled(req.op)]]
            /\ UNCHANGED <<lastError, logins>>
       ELSE \* testAuth clears lastError; then ensureAuth
            LET at == [rec EXCEPT !.client = "betfair", !.checked = TRUE,
                                  !.seen = [token |-> sessionToken,
                                            expiry |-> tokenExpiry,
                                            at |-> now]]
            IN
            /\ lastError' = IF req.op = "testAuth" THEN Null ELSE lastError
            /\ IF TokenFresh(sessionToken, tokenExpiry, now)
               THEN /\ caller' = [caller EXCEPT ![c] =
                         SendFirst(at, sessionToken, tokenExpiry)]
                    /\ logins' = logins
               ELSE /\ caller' = [caller EXCEPT ![c] =
                         [at EXCEPT !.pc = "login", !.loginNo = logins + 1]]
                    /\ logins' = logins + 1
  /\ UNCHANGED <<sessionToken, tokenExpiry, now>>
  /\ UNCHANGED <<searchVars, normVars>>

\* the login endpoint answers; the operation goes on to its first exchange
\* API call or gives up
LoginResponds(c) ==
  /\ caller[c].pc = "login"
  /\ \E r \in LoginResponses :
       LET rec == [caller[c] EXCEPT !.loginAnswer = r] IN
       IF r = "SUCCESS"
       THEN /\ sessionToken' = rec.loginNo
            /\ tokenExpiry' = now + SessionTTL
            /\ caller' = [caller EXCEPT ![c] =
                 SendFirst(rec, rec.loginNo, now + SessionTTL)]
            /\ lastError' = lastError
       ELSE LET step == WhenNotAuthed(rec.op, lastError) IN
            /\ caller' = [caller EXCEPT ![c] =
                 [rec EXCEPT !.pc = step.pc, !.result = step.result]]
            /\ lastError' = step.lastError
            /\ UNCHANGED <<sessionToken, tokenExpiry>>
  /\ UNCHANGED <<now, logins>>
  /\ UNCHANGED <<searchVars, normVars>>

\* the first exchange API call is answered; search and getMarket go on to
\* listMarketBook when the catalogue has entries
FirstResponds(c) ==
  /\ caller[c].pc = "first"
  /\ \E r \in FirstResponses(caller[c].op) :
       LET step == AfterFirst(caller[c].op, r, lastError)
           rec  == [caller[c] EXCEPT !.answers = Append(@, r),
                                     !.pc = step.pc,
                                     !.result = step.result]
       IN /\ caller' = [caller EXCEPT ![c] =
               IF step.pc = "book"
               THEN [rec EXCEPT !.calls =
                       Append(@, ExchangeCall("listMarketBook", sessionToken,
                                              tokenExpiry, now))]
               ELSE rec]
          /\ lastError' = step.lastError
  /\ UNCHANGED <<sessionToken, tokenExpiry, now, logins>>
  /\ UNCHANGED <<searchVars, normVars>>

\* listMarketBook is answered
BookResponds(c) ==
  /\ caller[c].pc = "book"
  /\ \E r \in BookResponses :
       LET step == AfterBook(caller[c].op, r, lastError) IN
         /\ caller' = [caller EXCEPT ![c] =
              [@ EXCEPT !.answers = Append(@, r), !.pc = step.pc,
                        !.result = step.result]]
         /\ lastError' = step.lastError
  /\ UNCHANGED <<sessionToken, tokenExpiry, now, logins>>
  /\ UNCHANGED <<searchVars, normVars>>

\* the Polymarket event page is answered
PageResponds(c) ==
  /\ caller[c].pc = "page"
  /\ \E r \in PageResponses :
       caller' = [caller EXCEPT ![c] =
         [@ EXCEPT !.answers = Append(@, r), !.pc = "done",
                   !.result = PageResult(r)]]
  /\ UNCHANGED <<sessionToken, tokenExpiry, lastError, now, logins>>
  /\ UNCHANGED <<searchVars, normVars>>

\* five minutes pass
Tick ==
  /\ now < MaxTime
  /\ now' = now + 1
  /\ UNCHANGED <<sessionToken, tokenExpiry, lastError, logins, caller>>
  /\ UNCHANGED <<searchVars, normVars>>

NextClient ==
  \/ \E c \in Callers : Begin(c)
  \/ \E c \in Callers : LoginResponds(c)
  \/ \E c \in Callers : FirstResponds(c)
  \/ \E c \in Callers : BookResponds(c)
  \/ \E c \in Callers : PageResponds(c)
  \/ Tick

SpecClient == InitClient /\ [][NextClient]_vars

\* ------------------------------------------------------- session upkeep
\* One client object used for one operation after another, keepAlive among
\* them.
\* the most logins one client is followed through
MaxLogins == 2

\* how the keepAlive endpoint answers
KeepAliveResponses == {"ok", "notOk", "throws"}

\* a keepAlive that renews the expiry whatever the answer
KeepAliveExpiry_Always(r, expiry, t) == t + SessionTTL

\* `if (response.ok) this.tokenExpiry = new Date(Date.now() + 15 * 60 * 1000)`
KeepAliveExpiry(r, expiry, t) == IF r = "ok" THEN t + SessionTTL ELSE expiry

InitSession == InitClient

\* the client's user starts search, getMarket, listEventTypes or testAuth
BeginOperation ==
  /\ logins < MaxLogins
  /\ Begin("a")

\* keepAlive up to its await: `if (!this.sessionToken) return false`
KeepAlive ==
  /\ caller["a"].pc = "idle"
  /\ LET rec == [IdleCaller EXCEPT !.op = "keepAlive", !.platform = "betfair",
                                   !.client = "betfair"]
     IN caller' = [caller EXCEPT !["a"] =
          IF sessionToken = NoToken
          THEN [rec EXCEPT !.pc = "done", !.result = BoolResult(FALSE)]
          ELSE [rec EXCEPT !.pc = "keepAlive"]]
  /\ UNCHANGED <<sessionToken, tokenExpiry, lastError, now, logins>>
  /\ UNCHANGED <<searchVars, normVars>>

\* the keepAlive endpoint answers
KeepAliveResponds ==
  /\ caller["a"].pc = "keepAlive"
  /\ \E r \in KeepAliveResponses :
       /\ tokenExpiry' = KeepAliveExpiry(r, tokenExpiry, now)
       /\ caller' = [caller EXCEPT !["a"] =
            [@ EXCEPT !.answers = Append(@, r), !.pc = "done",
                      !.result = BoolResult(r = "ok")]]
  /\ UNCHANGED <<sessionToken, lastError, now, logins>>
  /\ UNCHANGED <<searchVars, normVars>>

\* the operation is over and the client is used again
Again ==
  /\ caller["a"].pc = "done"
  /\ caller' = [caller EXCEPT !["a"] = IdleCaller]
  /\ UNCHANGED <<sessionToken, tokenExpiry, lastError, now, logins>>
  /\ UNCHANGED <<searchVars, normVars>>

NextSession ==
  \/ BeginOperation
  \/ LoginResponds("a")
  \/ FirstResponds("a")
  \/ BookResponds("a")
  \/ PageResponds("a")
  \/ KeepAlive
  \/ KeepAliveResponds
  \/ Again
  \/ Tick

SpecSession == InitSession /\ [][NextSession]_vars

\* ================================================================ claims
\* what the claims say about one finished searchAll, in terms of what the
\* clients did (outcome) and what searchAll returned (result)

Returned == pc = "done"

Failed(p) == outcome[p].kind = "error"

Succeeded(p) == outcome[p].kind = "list"

MarketsOf(p) == IF Succeeded(p) THEN outcome[p].markets ELSE <<>>

\* the markets of the platforms that answered, polymarket's first
Merged == MarketsOf("polymarket") \o MarketsOf("betfair")

\* the message of the value the search of p raised with
MessageOf(p) ==
  IF outcome[p].error.isError THEN outcome[p].error.message
  ELSE ToString(outcome[p].error.value)

Other(p) == IF p = "polymarket" THEN "betfair" ELSE "polymarket"

StatusOf(p) == result.meta.platforms[p].status

IsPrefixOf(s, t) == Len(s) <= Len(t) /\ \A i \in 1..Len(s) : s[i] = t[i]

\* C1: searchAll never raises: whatever the queried clients do (return a
\* list, raise an Error with any message, raise another value), the call
\* ends by returning an AggregatedResult, never by raising.
C1_NeverRaises ==
  /\ pc # "raised"
  /\ Returned =>
       /\ DOMAIN result = {"markets", "meta"}
       /\ DOMAIN result.meta = {"query", "platforms", "totalResults", "warnings"}
       /\ result.meta.query = query

C1_Witness ==
  /\ Returned
  /\ \A p \in Platforms : Failed(p)

\* C2: every platform whose search raised with message m is reported as
\* {status: "error", error: m}, "<platform>: m" is among the warnings, and
\* there are as many warnings as platforms with status "error".
C2_FailureReported ==
  Returned =>
    /\ \A p \in Platforms :
         Failed(p) =>
           /\ result.meta.platforms[p] =
                [status |-> "error", error |-> MessageOf(p)]
           /\ \E i \in 1..Len(result.meta.warnings) :
                result.meta.warnings[i] = p \o ": " \o MessageOf(p)
    /\ Len(result.meta.warnings) =
         Cardinality({ p \in Platforms : StatusOf(p) = "error" })

\* C3: with neither minVolume nor maxResults given, one platform returning
\* n markets and the other raising gives exactly those n markets, status
\* {success, n} for the first, status "error" for the second, one warning.
C3_FailureIsolation ==
  (Returned /\ options.minVolume = Absent /\ options.maxResults = Absent) =>
    \A p \in Platforms :
      (Succeeded(p) /\ Failed(Other(p))) =>
        /\ Len(result.markets) = Len(outcome[p].markets)
        /\ \A i \in 1..Len(outcome[p].markets) :
             \E j \in 1..Len(result.markets) :
               result.markets[j] = outcome[p].markets[i]
        /\ result.meta.platforms[p] =
             [status |-> "success", count |-> Len(outcome[p].markets)]
        /\ StatusOf(Other(p)) = "error"
        /\ Len(result.meta.warnings) = 1

\* C4: searchAll is past its join (it returned or raised) only when no
\* search it issued is still pending: not after the first success, not
\* after the first error.
C4_JoinBarrier ==
  pc \in {"done", "raised"} =>
    /\ \A p \in Platforms : call[p] # "pending"
    /\ Len(settleOrder) = Len(searchPromises)

C4_Witness ==
  /\ Returned
  /\ Len(settleOrder) = 2
  /\ Failed(settleOrder[1])
  /\ Succeeded(settleOrder[2])
  /\ Len(result.markets) > 0

\* C5: once searchAll waits, the search of every enabled platform that the
\* platform option lets through has been issued; and the markets and the
\* statuses it returns depend on what the clients answered only, not on
\* the order the answers came in.
C5_ParallelFanOut ==
  /\ pc # "idle" =>
       \A p \in Platforms :
         (enabled[p] /\ options.platform \in {Undefined, p}) =>
           call[p] # "notIssued"
  /\ Returned =>
       /\ result.markets =
            LimitResults(ApplySort(ApplyFilters(Merged, options), options),
                         options)
       /\ \A p \in Platforms :
            Succeeded(p) =>
              result.meta.platforms[p] =
                [status |-> "success", count |-> Len(outcome[p].markets)]

C5_Witness ==
  /\ Returned
  /\ settleOrder = <<"betfair", "polymarket">>
  /\ Len(MarketsOf("betfair")) > 0
  /\ Len(MarketsOf("polymarket")) > 0

\* C6: a platform that is not enabled, or that the platform option
\* excludes, is never queried, keeps status "disabled", and has no market
\* in the result.
C6_DisabledNotQueried ==
  pc # "idle" =>
    \A p \in Platforms :
      (~enabled[p] \/ options.platform = Other(p)) =>
        /\ call[p] = "notIssued"
        /\ outcome[p] = NoOutcome
        /\ Returned =>
             /\ result.meta.platforms[p] = [status |-> "disabled"]
             /\ \A i \in 1..Len(result.markets) :
                  result.markets[i].platform # p

C6_Witness ==
  /\ Returned
  /\ \E p \in Platforms :
       /\ ~enabled[p]
       /\ options.platform = Undefined
       /\ Len(MarketsOf(Other(p))) > 0
       /\ Len(result.markets) > 0

\* the position of market m in the list l (the markets of a merged list
\* differ in platform or id)
IndexIn(m, l) == CHOOSE i \in 1..Len(l) : l[i] = m

\* s holds exactly the markets of l with volume >= v, in l's order
IsVolumeSubsetOf(s, l, v) ==
  /\ \A i \in 1..Len(l) :
       (l[i].volume >= v) <=> (\E j \in 1..Len(s) : s[j] = l[i])
  /\ \A j \in 1..Len(s) : \E i \in 1..Len(l) : l[i] = s[j]
  /\ \A j \in 1..(Len(s) - 1) : IndexIn(s[j], l) < IndexIn(s[j + 1], l)

\* C7: when minVolume v is given (and nothing is truncated) searchAll
\* returns exactly the merged markets with volume >= v, those with volume
\* v included; filterByMinVolume(list, v) is that subset in the original
\* order, and filterByMinVolume(list, 0) is the whole list.
C7_MinVolume ==
  Returned =>
    /\ (options.minVolume # Absent /\ options.maxResults = Absent) =>
         /\ \A i \in 1..Len(Merged) :
              (Merged[i].volume >= options.minVolume)
                <=> (\E j \in 1..Len(result.markets) :
                       result.markets[j] = Merged[i])
         /\ \A j \in 1..Len(result.markets) :
              \E i \in 1..Len(Merged) : Merged[i] = result.markets[j]
         /\ Len(result.markets) =
              Cardinality({ i \in 1..Len(Merged) :
                              Merged[i].volume >= options.minVolume })
    /\ \A v \in 0..(MaxMinVolume + 1) :
         IsVolumeSubsetOf(filterByMinVolume(Merged, v), Merged, v)
    /\ filterByMinVolume(Merged, 0) = Merged

C7_Witness ==
  /\ Returned
  /\ options.minVolume = 1
  /\ options.maxResults = Absent
  /\ \E i \in 1..Len(Merged) : Merged[i].volume = 0
  /\ \E i \in 1..Len(Merged) : Merged[i].volume = 2
  /\ \E j \in 1..Len(result.markets) : result.markets[j].volume = 1

\* C8: the returned markets are in the order of the requested key: volume
\* (also when sortBy is not given) and odds never increase from one market
\* to the next, platform names never decrease.
C8_Ordered ==
  Returned =>
    \A i \in 1..(Len(result.markets) - 1) :
      LET a == result.markets[i]
          b == result.markets[i + 1]
      IN /\ options.sortBy \in {"volume", Undefined} => a.volume >= b.volume
         /\ options.sortBy = "odds" => a.odds >= b.odds
         /\ options.sortBy = "platform" =>
              ~(a.platform = "polymarket" /\ b.platform = "betfair")

C8_Witness ==
  /\ Returned
  /\ options.sortBy = Undefined
  /\ Len(Merged) = Len(result.markets)
  /\ \E i \in 1..(Len(Merged) - 1) : Merged[i].volume < Merged[i + 1].volume
  /\ \E i \in 1..(Len(result.markets) - 1) :
       result.markets[i].volume > result.markets[i + 1].volume

\* C9: when maxResults is given, searchAll returns at most maxResults
\* markets: the first maxResults of the filtered, sorted merged list, or
\* all of it when it is shorter.
C9_Truncation ==
  (Returned /\ options.maxResults # Absent) =>
    LET full == ApplySort(ApplyFilters(Merged, options), options) IN
      /\ Len(result.markets) <= options.maxResults
      /\ Len(result.markets) = Min(options.maxResults, Len(full))
      /\ IsPrefixOf(result.markets, full)
      /\ result.meta.totalResults = Len(result.markets)

C9_Witness ==
  /\ Returned
  /\ options.maxResults # Absent
  /\ Len(ApplyFilters(Merged, options)) > options.maxResults
  /\ Len(result.markets) = options.maxResults

\* C10: when maxResults is not given, a search returns at most 50 markets
\* in total.
C10_DefaultCap ==
  (Returned /\ options.maxResults = Absent) =>
    Len(result.markets) <= DefaultLimit

\* the positions of the warnings that report the failure of platform p
WarningsOf(p) ==
  { i \in 1..Len(result.meta.warnings) :
      result.meta.warnings[i] = p \o ": " \o MessageOf(p) }

\* C24: no retries: the search of each candidate platform is invoked once,
\* after it failed it is not invoked again, and the failure appears exactly
\* once among the warnings of the result.
C24_NoRetries ==
  Returned =>
    \A p \in Platforms :
      /\ p \in SeqRange(searchPromises) => call[p] = "settled"
      /\ Failed(p) => Cardinality(WarningsOf(p)) = 1

\* the part of C24 on invocations: a search that was issued is never issued
\* again, and once it settled its outcome stays what it is
C24_IssuedOnce ==
  [][\A p \in Platforms :
       /\ call[p] = "pending" => call'[p] \in {"pending", "settled"}
       /\ call[p] = "settled" => call'[p] = "settled" /\ outcome'[p] = outcome[p]
       /\ Len(SelectSeq(searchPromises', LAMBDA q : q = p)) <= 1]_vars

\* the part of C24 on the warning, for failures with a message
C24_ReportedOnce ==
  Returned =>
    \A p \in Platforms :
      (Failed(p) /\ MessageOf(p) # "") =>
        /\ Cardinality(WarningsOf(p)) = 1
        /\ Len(result.meta.warnings)
             = Cardinality({ q \in Platforms : Failed(q) /\ MessageOf(q) # "" })

\* the count a platform's status carries, 0 when it is not "success"
CountOf(p) ==
  IF StatusOf(p) = "success" THEN result.meta.platforms[p].count ELSE 0

\* C27: in every result meta.totalResults is the length of the returned
\* markets, which is at most the sum of the counts of the platforms with
\* status "success", and every returned market is of such a platform.
C27_Totals ==
  Returned =>
    /\ result.meta.totalResults = Len(result.markets)
    /\ Len(result.markets) <= CountOf("polymarket") + CountOf("betfair")
    /\ \A j \in 1..Len(result.markets) :
         StatusOf(result.markets[j].platform) = "success"

\* markets of both platforms came back, and the filter and the cut took
\* some of them away
C27_Witness ==
  /\ Returned
  /\ \A p \in Platforms : StatusOf(p) = "success" /\ CountOf(p) > 0
  /\ options.minVolume = 1
  /\ options.maxResults = 2
  /\ result.meta.totalResults = 2
  /\ CountOf("polymarket") + CountOf("betfair") > 3

\* the result of a searchAll that had no candidate platform
EmptyResult ==
  /\ result.markets = <<>>
  /\ result.meta.warnings = <<>>
  /\ result.meta.totalResults = 0
  /\ \A p \in Platforms : result.meta.platforms[p] = [status |-> "disabled"]

\* C28: when every platform search that searchAll issued eventually
\* settles (the fairness of SpecLive), a searchAll that was called
\* eventually returns its result, with no candidate platform the empty
\* result; and it has not returned while a call it issued is pending.
C28_Returns ==
  /\ (pc = "awaiting") ~> Returned
  /\ []((Returned /\ searchPromises = <<>>) => EmptyResult)
  /\ [](Returned => \A p \in Platforms : call[p] # "pending")

\* searchAll returned after both platforms settled, the last by failing
C28_Witness ==
  /\ Returned
  /\ Len(settleOrder) = 2
  /\ Failed(settleOrder[2])

\* ------------------------------------------- claims on client operations
\* what the claims say about the operations of the callers, in terms of
\* what each caller asked for and was answered and what it was given

GetMarketDone(c) == caller[c].op = "getMarket" /\ caller[c].pc = "done"

\* the answers by which a platform says it does not have the market
PolymarketNotFound == {"404", "noPayload", "noEvent"}
BetfairNotFound == {"okEmpty"}

\* C11: getMarket for an id the known platform does not have returns null
\* and does not raise, for the Polymarket and the Betfair client and for
\* every not-found answer of the platform; an unknown platform tag returns
\* null without calling any client.
C11_NotFound ==
  \A c \in Callers :
    GetMarketDone(c) =>
      /\ ( /\ caller[c].platform = "polymarket"
           /\ caller[c].answers # <<>>
           /\ caller[c].answers[1] \in PolymarketNotFound )
           => caller[c].result = NullResult
      /\ ( /\ caller[c].platform = "betfair"
           /\ caller[c].answers # <<>>
           /\ caller[c].answers[1] \in BetfairNotFound )
           => caller[c].result = NullResult
      /\ caller[c].platform \notin Platforms =>
           /\ caller[c].result = NullResult
           /\ caller[c].client = "none"
           /\ caller[c].calls = <<>>
           /\ caller[c].answers = <<>>

\* one caller got null for a 404 of Polymarket and the other for an empty
\* catalogue of Betfair
C11_Witness ==
  \E c \in Callers : \E d \in Callers :
    /\ GetMarketDone(c) /\ GetMarketDone(d)
    /\ caller[c].platform = "polymarket"
    /\ caller[c].answers = <<"404">>
    /\ caller[c].result = NullResult
    /\ caller[d].platform = "betfair"
    /\ caller[d].answers = <<"okEmpty">>
    /\ caller[d].result = NullResult

LoginFailed(c) == caller[c].loginAnswer \notin {"none", "SUCCESS"}

\* the token a caller's ensureAuth looked at was there and not yet expired
SawFresh(c) ==
  /\ caller[c].seen.token # NoToken
  /\ caller[c].seen.expiry > caller[c].seen.at

\* the reason testAuth gives for the step that failed
ReasonOf(c) ==
  IF LoginFailed(c) THEN LoginFailedError
  ELSE CASE caller[c].answers[1] = "invalidAppKey" -> AppKeyProbeError
         [] caller[c].answers[1] = "notOk"         -> ExchangeError
         [] caller[c].answers[1] = "throws"        -> UnexpectedError
         [] OTHER                                  -> Undefined

\* C12: testAuth with the Betfair client enabled goes through login and only
\* then sends the probe; after a failed login the probe is never sent; a
\* result with enabled and not authenticated carries the reason of the
\* first failing step (login, else probe), and an authenticated result
\* carries no error.
C12_TestAuth ==
  \A c \in Callers :
    caller[c].op = "testAuth" =>
      /\ enabled["betfair"] => caller[c].checked
      /\ caller[c].calls # <<>> =>
           (caller[c].loginAnswer = "SUCCESS" \/ SawFresh(c))
      /\ LoginFailed(c) => caller[c].calls = <<>>
      /\ caller[c].pc = "done" =>
           /\ caller[c].result.enabled = enabled["betfair"]
           /\ (caller[c].result.enabled /\ ~caller[c].result.authenticated)
                => caller[c].result.error = ReasonOf(c)
           /\ caller[c].result.authenticated =>
                /\ caller[c].result.error = Undefined
                /\ caller[c].answers = <<"ok">>

\* a testAuth whose login succeeded and whose probe was refused
C12_Witness ==
  \E c \in Callers :
    /\ caller[c].op = "testAuth"
    /\ caller[c].pc = "done"
    /\ caller[c].loginAnswer = "SUCCESS"
    /\ caller[c].answers = <<"notOk">>
    /\ caller[c].result.enabled
    /\ ~caller[c].result.authenticated
    /\ caller[c].result.error = ExchangeError

\* the caller whose login gave the stored token
Holder(c) == caller[c].loginNo # 0 /\ caller[c].loginNo = sessionToken

\* every protected operation checks the token before its first call and
\* logs in exactly when the token was absent or expired
C13_ChecksFirst ==
  \A c \in Callers :
    caller[c].client = "betfair" /\ enabled["betfair"] =>
      /\ caller[c].checked
      /\ (caller[c].loginNo # 0) <=> ~SawFresh(c)
      /\ caller[c].calls # <<>> =>
           (caller[c].loginAnswer = "SUCCESS" \/ SawFresh(c))

\* the expiry is 15 minutes after the last successful login
C13_Expiry ==
  /\ sessionToken = NoToken <=> tokenExpiry = Absent
  /\ \A c \in Callers :
       (Holder(c) /\ caller[c].loginAnswer = "SUCCESS") =>
         tokenExpiry = caller[c].calls[1].at + SessionTTL

\* after a failed login the operation sends no call and raises (testAuth
\* returns false)
C13_FailedLogin ==
  \A c \in Callers :
    LoginFailed(c) =>
      /\ caller[c].calls = <<>>
      /\ caller[c].pc = "done"
      /\ IF caller[c].op = "testAuth"
         THEN ~caller[c].result.authenticated
         ELSE caller[c].result = Raised(AuthFailedError)

\* no exchange API call was sent with an absent or expired token
C13_NoStaleCall ==
  \A c \in Callers :
    \A i \in 1..Len(caller[c].calls) :
      /\ caller[c].calls[i].token # NoToken
      /\ caller[c].calls[i].expiry > caller[c].calls[i].at

\* C13: every protected Betfair operation checks the session token before
\* its first exchange API call; a login is started exactly when the token is
\* absent or its expiry (15 minutes after the last successful login) is not
\* in the future; after a failed login the operation sends no exchange API
\* call and raises (testAuth returns false); so no exchange API call is ever
\* sent with an absent or already-expired token.
C13_LazyRenewal ==
  /\ C13_ChecksFirst
  /\ C13_Expiry
  /\ C13_FailedLogin
  /\ C13_NoStaleCall

LoginsInProgress == { c \in Callers : caller[c].pc = "login" }

\* two logins succeeded less than a session apart: the later one replaced
\* a token that was still good
RedundantLogin(c, d) ==
  /\ c # d
  /\ caller[c].loginAnswer = "SUCCESS"
  /\ caller[d].loginAnswer = "SUCCESS"
  /\ caller[c].calls[1].at <= caller[d].calls[1].at
  /\ caller[d].calls[1].at < caller[c].calls[1].at + SessionTTL

\* C14: for one Betfair client at most one login is in progress at any
\* time: of two concurrent protected calls that both see a stale or absent
\* token only one logs in and the other awaits it, so the stored token is
\* never overwritten by a second, redundant login.
C14_SingleFlight ==
  /\ Cardinality(LoginsInProgress) <= 1
  /\ \A c \in Callers : \A d \in Callers : ~RedundantLogin(c, d)

\* ------------------------------------------------ claims on normalizers
\* what the claims say about one normalized market, in terms of the book
\* the normalizer was given (normInput) and the market it produced

BetfairMarket == normMarket.platform = "betfair"
PolymarketMarket == normMarket.platform = "polymarket"

\* the positions of the outcome list of the market produced
OutcomeIndexes ==
  IF normMarket.platform = "none" THEN {} ELSE 1..Len(normMarket.outcomes)

\* the runner of the book an outcome of a Betfair market was made from
RunnerOf(o) == normInput.book.runners[o.name]

\* a quote is kept when its size is at least 2 pounds and, for a lay quote,
\* its implied probability 100 / price is at least 2 percent
BackSurvives(r) == r.back.present /\ r.back.size >= 2
LayAboveFloor(r) == 2 * r.lay.price <= 100 * PriceScale
LaySurvives(r) == r.lay.present /\ r.lay.size >= 2 /\ LayAboveFloor(r)

\* pct is the implied probability of a decimal price: 100 for a price of
\* at most 1, else the hundredth of a percent nearest to 100 / price
IsImplied(pct, price) ==
  IF price <= PriceScale THEN pct = 100 * PercentScale
  ELSE 2 * Abs(pct * price - 100 * PercentScale * PriceScale) <= price

TwoSided(o) == o.backOdds # Absent /\ o.layOdds # Absent

C16_TwoSided ==
  BetfairMarket =>
    \A i \in OutcomeIndexes :
      LET o == normMarket.outcomes[i]
          r == RunnerOf(o)
      IN (BackSurvives(r) /\ LaySurvives(r)) =>
           /\ ~o.backOnly
           /\ TwoSided(o)
           /\ 2 * o.odds - (o.backOdds + o.layOdds) \in {-1, 0, 1}
           /\ o.spread = Abs(o.backOdds - o.layOdds)
           /\ (r.back.price = 50000 /\ r.lay.price = 41667) =>
                (o.odds = 22 * PercentScale /\ o.spread = 4 * PercentScale)

\* the runner backed at 20% and laid at 24% came out at 22 with spread 4
C16_Witness ==
  /\ BetfairMarket
  /\ \E i \in OutcomeIndexes :
       LET o == normMarket.outcomes[i] IN
         /\ o.backOdds = 20 * PercentScale
         /\ o.layOdds = 24 * PercentScale
         /\ o.odds = 22 * PercentScale
         /\ o.spread = 4 * PercentScale

C18_QuoteFiltering ==
  BetfairMarket =>
    \A i \in OutcomeIndexes :
      LET o == normMarket.outcomes[i]
          r == RunnerOf(o)
      IN /\ (r.back.present /\ r.back.size < 2) => o.backOdds = Absent
         /\ (r.lay.present /\ r.lay.size < 2) => o.layOdds = Absent
         /\ (r.lay.present /\ ~LayAboveFloor(r)) => o.layOdds = Absent
         /\ BackSurvives(r) =>
              o.backOdds # Absent /\ IsImplied(o.backOdds, r.back.price)
         /\ LaySurvives(r) =>
              o.layOdds # Absent /\ IsImplied(o.layOdds, r.lay.price)

\* a lay quote of 3 pounds at 1% was dropped and the back quote was kept
C18_Witness ==
  /\ BetfairMarket
  /\ \E i \in OutcomeIndexes :
       LET o == normMarket.outcomes[i]
           r == RunnerOf(o)
       IN /\ r.lay.present /\ r.lay.size >= 2 /\ ~LayAboveFloor(r)
          /\ o.layOdds = Absent
          /\ o.backOdds # Absent

ListLen(field) ==
  CASE field.enc = "array" -> Len(field.items)
    [] field.enc = "json"  -> Len(field.tokens)
    [] OTHER               -> 0
Decodes(field) == ListLen(field) > 0

\* C21: a record carrying its outcome names and prices as native arrays and
\* the record carrying the same lists as JSON-serialized strings normalize
\* to the same outcomes and the same scalar odds.
C21_Encodings ==
  normTwin # NoMarket =>
    /\ normTwin.hasOutcomes = normMarket.hasOutcomes
    /\ normTwin.outcomes = normMarket.outcomes
    /\ normTwin.odds = normMarket.odds

\* a record of two priced outcomes was normalized in both encodings
C21_Witness ==
  /\ normTwin # NoMarket
  /\ normInput.market.outcomePrices.items
       = <<JsString(NumText(22004)), JsNumber(78000)>>
  /\ Len(normTwin.outcomes) = 2
  /\ normTwin.outcomes[2].odds = 78 * PercentScale

\* the market of a record without usable outcome data: odds 50, no outcomes
IsDefaultMarket(m) ==
  /\ m.platform = "polymarket"
  /\ m.odds = 50 * PercentScale
  /\ ~m.hasOutcomes
  /\ m.outcomes = <<>>

\* the market of the well-formed record of a page: Yes at 22%, No at 78%
IsGoodMarket(m) ==
  /\ m.platform = "polymarket"
  /\ m.hasOutcomes
  /\ Len(m.outcomes) = 2
  /\ m.outcomes[1] = [name |-> OutcomeName(1), odds |-> 22 * PercentScale]
  /\ m.outcomes[2] = [name |-> OutcomeName(2), odds |-> 78 * PercentScale]
  /\ m.odds = 22 * PercentScale

\* event e of a page has a first market whose lists both decode
PageRecordDecodes(e) ==
  /\ Len(e.markets) > 0
  /\ Decodes(e.markets[1].outcomes)
  /\ Decodes(e.markets[1].outcomePrices)

\* C22: a record whose outcome or price data is absent, empty or cannot be
\* decoded does not make normalization raise: it yields a market with
\* scalar odds 50 and no outcomes, and the search returns every record of
\* the page, the well-formed ones with their own outcomes and odds.
C22_Degrades ==
  /\ (PolymarketMarket
        /\ ~(Decodes(normInput.market.outcomes)
               /\ Decodes(normInput.market.outcomePrices)))
       => IsDefaultMarket(normMarket)
  /\ (normInput.platform = "polymarketSearch" /\ normMarkets # NoSearch)
       => /\ normMarkets.kind = "list"
          /\ Len(normMarkets.markets) = Len(normInput.events)
          /\ \A i \in 1..Len(normInput.events) :
               \E j \in 1..Len(normMarkets.markets) :
                 LET m == normMarkets.markets[j]
                 IN /\ m.id = i
                    /\ IF PageRecordDecodes(normInput.events[i])
                       THEN IsGoodMarket(m) ELSE IsDefaultMarket(m)

\* a page with an undecodable record and a well-formed one was searched
C22_Witness ==
  /\ normInput.platform = "polymarketSearch"
  /\ normMarkets.kind = "list"
  /\ Len(normInput.events) = 2
  /\ \E i, k \in 1..2 :
       /\ Len(normInput.events[i].markets) > 0
       /\ normInput.events[i].markets[1].outcomePrices.enc = "malformed"
       /\ PageRecordDecodes(normInput.events[k])

\* the number a price value or a price token carries, NaN when none
NumberOf(x) ==
  IF x.type = "number" THEN x.value
  ELSE IF x.type = "string" /\ x.text.numeric THEN x.text.value
  ELSE NaN
TokenNumber(t) ==
  IF t.tok = "bare" THEN t.value
  ELSE IF t.tok = "quoted" /\ t.text.numeric THEN t.text.value
  ELSE NaN
PriceCarried(field, i) ==
  IF field.enc = "array" THEN NumberOf(field.items[i])
  ELSE TokenNumber(field.tokens[i])

\* non-empty names and prices, every price a number
WellFormedRecord(market) ==
  /\ Decodes(market.outcomes)
  /\ Decodes(market.outcomePrices)
  /\ \A i \in 1..ListLen(market.outcomePrices) :
       PriceCarried(market.outcomePrices, i) # NaN

\* pct is price * 100 to 2 decimals
IsPercentOf(pct, price) ==
  2 * Abs(pct * PolyPriceScale - price * 100 * PercentScale) <= PolyPriceScale

\* C23: for every record with non-empty well-formed names and prices, the
\* scalar odds equals the first outcome's odds, which is the first price
\* times 100 to 2 decimals, for every first price in [0, 1], 0 included.
C23_ScalarOdds ==
  (PolymarketMarket /\ WellFormedRecord(normInput.market)) =>
    /\ normMarket.hasOutcomes
    /\ normMarket.odds = normMarket.outcomes[1].odds
    /\ IsPercentOf(normMarket.outcomes[1].odds,
                   PriceCarried(normInput.market.outcomePrices, 1))

NoBookFor(answer, c) ==
  \/ answer.kind = "notOk"
  \/ \A j \in 1..Len(answer.books) : answer.books[j].marketId # c.marketId

\* C29: when the catalogue has k entries and the book call is answered
\* with a failure status or without some market, search returns k markets
\* in catalogue order, those without a book with no outcomes, odds 0,
\* status "unknown" and the catalogue's volume; an empty catalogue gives an
\* empty list and no book call.
C29_Degrades ==
  (normInput.platform = "betfairSearch" /\ normMarkets # NoSearch) =>
    LET cs == normInput.catalogues
        a  == normInput.answer
    IN /\ Len(cs) = 0 => normMarkets = SearchList(<<>>, 0)
       /\ (Len(cs) > 0 /\ a.kind # "throws")
            => /\ normMarkets.kind = "list"
               /\ normMarkets.bookCalls = 1
               /\ Len(normMarkets.markets) = Len(cs)
               /\ \A i \in 1..Len(cs) :
                    LET m == normMarkets.markets[i]
                    IN /\ m.platform = "betfair"
                       /\ m.id = cs[i].marketId
                       /\ IF NoBookFor(a, cs[i])
                          THEN /\ ~m.hasOutcomes
                               /\ m.outcomes = <<>>
                               /\ m.odds = 0
                               /\ m.status = "unknown"
                               /\ m.volume
                                    = IF cs[i].totalMatched = Absent THEN 0
                                      ELSE cs[i].totalMatched * DefaultGbpToUsd
                          ELSE m.hasOutcomes /\ m.status = "open"

\* two catalogue entries were answered with the book of the second alone
C29_Witness ==
  /\ normInput.platform = "betfairSearch"
  /\ normMarkets.kind = "list"
  /\ Len(normInput.catalogues) = 2
  /\ normInput.answer.kind = "ok"
  /\ NoBookFor(normInput.answer, normInput.catalogues[1])
  /\ ~NoBookFor(normInput.answer, normInput.catalogues[2])
  /\ normMarkets.markets[1].volume = 50 * DefaultGbpToUsd

\* ----------------------------------------------------------- sort claims
\* how often x occurs in the list s
Occurrences(s, x) == Cardinality({ i \in 1..Len(s) : s[i] = x })

IsPermutationOf(s, t) ==
  /\ Len(s) = Len(t)
  /\ \A i \in 1..Len(t) : Occurrences(s, t[i]) = Occurrences(t, t[i])

\* C25: sortMarkets is idempotent and non-destructive: sorting the sorted
\* list by the same key gives the sorted list again, the sorted list is a
\* permutation of the list given, and the list given is left as it was.
C25_SortIdempotent ==
  /\ sortCall.step \in {"sorted", "resorted"}
       => /\ IsPermutationOf(sortCall.once, sortCall.markets)
          /\ sortCall.array = sortCall.markets
  /\ sortCall.step = "resorted" => sortCall.twice = sortCall.once

\* a list of three markets that was not in order has been sorted twice
C25_Witness ==
  /\ sortCall.step = "resorted"
  /\ Len(sortCall.markets) = 3
  /\ sortCall.once # sortCall.markets
  /\ sortCall.twice = sortCall.once

\* --------------------------------------------------------- session claims
\* a step in which the login of caller c is answered, with SUCCESS or not
LoginAnswered(c) == caller[c].pc = "login" /\ caller'[c].pc # "login"
LoginSucceeds(c) == LoginAnswered(c) /\ caller'[c].loginAnswer = "SUCCESS"
LoginFails(c)    == LoginAnswered(c) /\ caller'[c].loginAnswer # "SUCCESS"

\* a step in which the keepAlive of caller c is answered ok
KeepAliveSucceeds(c) ==
  /\ caller[c].pc = "keepAlive"
  /\ caller'[c].pc = "done"
  /\ caller'[c].answers = <<"ok">>

\* C30: a failed login (rejected status, unparsable response, transport
\* error) leaves sessionToken and tokenExpiry as they were; tokenExpiry
\* changes only with a login answered SUCCESS or a keepAlive answered ok,
\* sessionToken only with a login answered SUCCESS.
C30_SessionFrame ==
  [][ /\ \A c \in Callers :
           LoginFails(c) => UNCHANGED <<sessionToken, tokenExpiry>>
      /\ sessionToken' # sessionToken => \E c \in Callers : LoginSucceeds(c)
      /\ tokenExpiry' # tokenExpiry =>
           \E c \in Callers : LoginSucceeds(c) \/ KeepAliveSucceeds(c) ]_vars

\* a login has failed on a client that holds the token of an earlier login
C30_Witness ==
  /\ caller["a"].pc = "done"
  /\ caller["a"].loginAnswer \in {"rejected", "unparsable", "transport"}
  /\ sessionToken # NoToken
  /\ tokenExpiry # Absent

====
